---- MODULE Spec2Model ----
(***************************************************************************)
(* Model of the video content-extraction pipeline                          *)
(* (src/poc/parse_video_content/video_parser.py).                          *)
(*                                                                         *)
(* Python values are modelled as tagged records: None is PyNone, a str is  *)
(* PyStr(tokens) and a list is PyList(items).  A string is a sequence of   *)
(* tokens: single characters, plus the atomic tokens of Timestamps,        *)
(* BadTimestamps and Arrow, which stand for the character runs they spell. *)
(***************************************************************************)
EXTENDS Integers, Sequences, FiniteSets, TLC

\* ------------------------------------------------------------------ bounds
\* Largest number of blocks in a generated subtitle file.
MaxBlocks == 3

\* The number of video files the batch driver finds in the input directory.
NumVideos == 2

\* The longest audio, and the longest segment length, given to
\* segment_long_audio, in milliseconds.
MaxDuration == 9

MaxSegmentLength == 5

\* -------------------------------------------------------------------- state
VARIABLES
    pc,              \* position of the run: construction, process_video, exit
    use_openai_arg,  \* the use_openai argument the parser was constructed with
    exit_status,     \* exit status of the CLI process once it ended, else -1
    video,           \* the container at self.video_path: its streams' codec types
    use_openai,      \* self.use_openai after construction
    openai_api_key,  \* self.openai_api_key after construction
    local_engine,    \* what the local speech engine answers for each audio file
    audio_path,      \* the value extract_audio returned
    result,          \* the result dict of process_video: key -> value
    calls,           \* external tools and backends invoked so far, in order
    logs,            \* messages logged by the transcription backends
    files,           \* files under self.output_dir: path -> what was written
    tmp_files,       \* temporary subtitle files that exist
    io_fault,        \* the output file whose write the file system refuses
    exc,             \* the exception that left process_video, or "none"
    srt_blocks,      \* the blocks the subtitle file under parse is made of
    srt_file,        \* the subtitle file given to _parse_srt, last
    srt_pc,          \* "ready" before _parse_srt, "parsed" after
    srt_result,      \* the value _parse_srt returned
    futures,         \* batch: per submitted video, the state of its future
    max_workers,     \* batch: the --max-workers of the thread pool
    now,             \* batch: the wall clock, to the second
    writes,          \* batch: which worker wrote which output path
    results,         \* batch: the results list of main()
    report,          \* batch: the summary report file
    main_pc,         \* batch: position of main()
    main_exc,        \* batch: the exception that left main(), or "none"
    seg_duration,    \* segment_long_audio: len(audio), the duration in ms
    seg_length,      \* segment_long_audio: the segment_length_ms argument
    seg_pc,          \* segment_long_audio: "ready" before the call, "done" after
    seg_result,      \* segment_long_audio: the value returned
    seg_exc          \* segment_long_audio: the exception that left it, or "none"

vars == <<pc, use_openai_arg, exit_status, video, use_openai, openai_api_key,
          local_engine, audio_path, result, calls, logs, files, tmp_files, io_fault,
          exc, srt_blocks, srt_file, srt_pc, srt_result, futures, max_workers, now,
          writes, results, report, main_pc, main_exc, seg_duration, seg_length,
          seg_pc, seg_result, seg_exc>>

pipeline_vars == <<pc, use_openai_arg, exit_status, video, use_openai, openai_api_key,
                   local_engine, audio_path, result, calls, logs, files, tmp_files,
                   io_fault, exc>>

srt_vars == <<srt_blocks, srt_file, srt_pc, srt_result>>

batch_vars == <<futures, max_workers, now, writes, results, report, main_pc, main_exc>>

seg_vars == <<seg_duration, seg_length, seg_pc, seg_result, seg_exc>>

\* ------------------------------------------------------------ Python values
PyNone == [type |-> "NoneType"]

PyStr(s) == [type |-> "str", val |-> s]

PyList(l) == [type |-> "list", val |-> l]

\* Python truthiness of a value: None, "" and [] are falsy.
Truthy(v) == v.type # "NoneType" /\ v.val # <<>>

\* ---------------------------------------------------------------- alphabet
Digits == {"0", "1", "2", "3", "4", "5", "6", "7", "8", "9"}

\* Characters matched by \s.
Whitespace == {"\n", " "}

\* Strings that match \d{2}:\d{2}:\d{2},\d{3}, each one atomic token.
Timestamps == {"00:00:01,000", "00:00:02,000", "00:00:03,500"}

\* Timestamp look-alikes that do not match the pattern (a dot before the
\* milliseconds), each one atomic token.
BadTimestamps == {"00:00:01.000"}

Arrow == "-->"

\* The digits a token ends with: what (\d+) can match from inside it.
TailDigits(c) ==
    IF c \in Digits THEN <<c>>
    ELSE IF c \in {"00:00:01,000", "00:00:02,000", "00:00:01.000"}
         THEN <<"0", "0", "0">>
    ELSE IF c = "00:00:03,500" THEN <<"5", "0", "0">>
    ELSE <<>>

\* Whether the token's first character matches \d.
StartsWithDigit(c) == c \in Digits \cup Timestamps \cup BadTimestamps

DigitValue(d) ==
    CASE d = "0" -> 0 [] d = "1" -> 1 [] d = "2" -> 2 [] d = "3" -> 3
      [] d = "4" -> 4 [] d = "5" -> 5 [] d = "6" -> 6 [] d = "7" -> 7
      [] d = "8" -> 8 [] d = "9" -> 9

\* int(index) of a digit string.
RECURSIVE IntOf(_)
IntOf(ds) ==
    IF ds = <<>> THEN 0
    ELSE 10 * IntOf(SubSeq(ds, 1, Len(ds) - 1)) + DigitValue(ds[Len(ds)])

\* str.strip(): leading and trailing whitespace removed.
RECURSIVE Strip(_)
Strip(s) ==
    IF s = <<>> THEN s
    ELSE IF s[1] \in Whitespace THEN Strip(Tail(s))
    ELSE IF s[Len(s)] \in Whitespace THEN Strip(SubSeq(s, 1, Len(s) - 1))
    ELSE s

\* ------------------------------------------------- the regular expression
\* First position >= p of s that holds no digit character (Len(s)+1 if none):
\* the end of a greedy \d+ .
RECURSIVE DigitRunEnd(_, _)
DigitRunEnd(s, p) ==
    IF p <= Len(s) /\ s[p] \in Digits THEN DigitRunEnd(s, p + 1) ELSE p

\* First position >= p of s that holds no whitespace: the end of a greedy \s+ .
RECURSIVE SpaceRunEnd(_, _)
SpaceRunEnd(s, p) ==
    IF p <= Len(s) /\ s[p] \in Whitespace THEN SpaceRunEnd(s, p + 1) ELSE p

\* The lookahead (?=\n\n\d+|\Z) at position e (the match would end before e).
LookaheadAtNoEnd(s, e) ==
    /\ e + 2 <= Len(s)
    /\ s[e] = "\n"
    /\ s[e + 1] = "\n"
    /\ StartsWithDigit(s[e + 2])

LookaheadAt(s, e) ==
    \/ /\ e + 2 <= Len(s)
       /\ s[e] = "\n"
       /\ s[e + 1] = "\n"
       /\ StartsWithDigit(s[e + 2])
    \/ e = Len(s) + 1

\* The lazy ([\s\S]*?): the first position >= e where the lookahead holds.
RECURSIVE TextEnd(_, _)
TextEnd(s, e) ==
    IF e > Len(s) + 1 THEN 0
    ELSE IF LookaheadAt(s, e) THEN e
    ELSE TextEnd(s, e + 1)

NoMatch == [ok |-> FALSE]

\* One attempt of the pattern at position p of s, by backtracking search.
\* Each \s+ and the \d+ take their whole run: the element after each of them
\* cannot start with a character of the run, and after the last \s+ the lazy
\* group always finds an end, so no shorter run is ever tried with success.
MatchAt(s, p) ==
    LET digits == TailDigits(s[p])
        i1 == DigitRunEnd(s, p + 1)
        i2 == SpaceRunEnd(s, i1)
        i3 == i2 + 1
        i4 == SpaceRunEnd(s, i3)
        i5 == i4 + 1
        i6 == SpaceRunEnd(s, i5)
        i7 == i6 + 1
        i8 == SpaceRunEnd(s, i7)
        e  == TextEnd(s, i8)
    IN  IF /\ digits # <<>>
           /\ i2 > i1
           /\ i2 <= Len(s) /\ s[i2] \in Timestamps
           /\ i4 > i3
           /\ i4 <= Len(s) /\ s[i4] = Arrow
           /\ i6 > i5
           /\ i6 <= Len(s) /\ s[i6] \in Timestamps
           /\ i8 > i7
           /\ e > 0
        THEN [ok |-> TRUE,
              index |-> digits \o SubSeq(s, p + 1, i1 - 1),
              start_time |-> s[i2],
              end_time |-> s[i6],
              text |-> SubSeq(s, i8, e - 1),
              stop |-> e]
        ELSE NoMatch

\* re.findall(pattern, content): the non-overlapping matches, left to right.
RECURSIVE FindAll(_, _)
FindAll(s, p) ==
    IF p > Len(s) THEN <<>>
    ELSE LET m == MatchAt(s, p)
         IN  IF m.ok THEN <<m>> \o FindAll(s, m.stop)
             ELSE FindAll(s, p + 1)

\* The entry appended for one match.
SubtitleEntry(m) ==
    [index |-> IntOf(m.index),
     start_time |-> m.start_time,
     end_time |-> m.end_time,
     text |-> Strip(m.text)]

\* _parse_srt on a file: the list of entries, or None when reading raises.
ParseSrt(file) ==
    IF ~file.readable THEN PyNone
    ELSE LET matches == FindAll(file.content, 1)
         IN  PyList([i \in 1..Len(matches) |-> SubtitleEntry(matches[i])])

\* --------------------------------------------------- subtitle files (inputs)
\* A block of a subtitle file: an index line (absent when index is empty), a
\* timing line "start arrow end" (absent when start is ""), and text lines.
Block(index, start, arrow, end, text) ==
    [index |-> index, start |-> start, arrow |-> arrow, end |-> end, text |-> text]

\* Blocks of the grammar <index>\n<start> --> <end>\n<text lines>.
GrammarBlocks ==
    { Block(<<"1">>, "00:00:01,000", Arrow, "00:00:02,000", <<"a">>),
      Block(<<"2">>, "00:00:02,000", Arrow, "00:00:03,500", <<"a", "\n", "b">>),
      Block(<<"1", "0">>, "00:00:01,000", Arrow, "00:00:02,000", <<"7">>),
      Block(<<"3">>, "00:00:01,000", Arrow, "00:00:03,500", <<" ", "a", " ", "b", " ">>),
      Block(<<"2">>, "00:00:02,000", Arrow, "00:00:01,000", <<"b">>) }

\* Blocks outside the grammar: no index line, a wrong arrow, a timestamp that
\* is not HH:MM:SS,mmm, and a free-text note without index and timing lines.
MalformedBlocks ==
    { Block(<<>>, "00:00:01,000", Arrow, "00:00:02,000", <<"a">>),
      Block(<<"4">>, "00:00:01,000", "->", "00:00:02,000", <<"a">>),
      Block(<<"5">>, "00:00:01.000", Arrow, "00:00:02,000", <<"a">>),
      Block(<<>>, "", "", "", <<"x">>) }

Blocks == GrammarBlocks \cup MalformedBlocks

\* The characters of one block, without its terminator.
Render(b) ==
    IF b.start = "" THEN b.text
    ELSE (IF b.index = <<>> THEN <<>> ELSE b.index \o <<"\n">>)
         \o <<b.start, " ", b.arrow, " ", b.end>>
         \o (IF b.text = <<>> THEN <<>> ELSE <<"\n">> \o b.text)

Newlines(n) == [i \in 1..n |-> "\n"]

\* The blocks bs, separated by gap blank lines and followed by trailer newlines.
RECURSIVE RenderFile(_, _, _)
RenderFile(bs, gap, trailer) ==
    IF bs = <<>> THEN Newlines(trailer)
    ELSE IF Len(bs) = 1 THEN Render(bs[1]) \o Newlines(trailer)
    ELSE Render(bs[1]) \o Newlines(gap + 1) \o RenderFile(Tail(bs), gap, trailer)

BlockSeqs == UNION { [1..n -> Blocks] : n \in 0..MaxBlocks }

\* A file whose bytes cannot be read or decoded: open()/read() raises.
UnreadableFile == [readable |-> FALSE, content |-> <<>>]

TextFile(content) == [readable |-> TRUE, content |-> content]

\* ------------------------------------------------------------- environment
\* Containers a video file can be: the codec type of each stream, in the order
\* of their absolute stream index (the first stream has index 0).
Containers ==
    { <<"video">>,
      <<"video", "audio">>,
      <<"video", "subtitle">>,
      <<"video", "audio", "subtitle">>,
      <<"video", "subtitle", "audio", "subtitle">> }

\* Values an API key can have: None, "" and a key.
ApiKeys == {PyNone, PyStr(<<>>), PyStr(<<"k">>)}

\* self.output_dir / f"audio_{timestamp}.wav", for two values of the clock.
AudioPaths == {<<"audio_1.wav">>, <<"audio_2.wav">>}

\* What recognize_google does with an audio file: it returns the transcript,
\* or raises UnknownValueError, RequestError or another exception.
LocalOutcomes ==
    { [kind |-> "text", text |-> <<"h", "i">>],
      [kind |-> "UnknownValueError", text |-> <<>>],
      [kind |-> "RequestError", text |-> <<>>],
      [kind |-> "Exception", text |-> <<>>] }

\* What the remote transcription does: the import of the client fails, the
\* request raises, or it returns the response text (which may be empty).
RemoteOutcomes ==
    { [kind |-> "text", text |-> <<"o", "k">>],
      [kind |-> "text", text |-> <<>>],
      [kind |-> "APIError", text |-> <<>>],
      [kind |-> "ImportError", text |-> <<>>] }

\* How a subprocess.run of an external tool ends: exit code 0, another exit
\* code, or an exception (the executable is not found).
ToolOutcomes == {"ok", "nonzero", "raise"}

HasStream(container, codec) == \E i \in 1..Len(container) : container[i] = codec

\* ffmpeg cannot exit 0 on a stream the container does not have.
AudioOutcomes(container) ==
    IF HasStream(container, "audio") THEN ToolOutcomes ELSE ToolOutcomes \ {"ok"}

SubtitleOutcomes(container) ==
    IF HasStream(container, "subtitle") THEN ToolOutcomes ELSE ToolOutcomes \ {"ok"}

\* Subtitle files the copy of the default subtitle stream can produce.
SampleFiles ==
    { TextFile(<<>>),
      TextFile(RenderFile(
          << Block(<<"1">>, "00:00:01,000", Arrow, "00:00:02,000", <<"a">>),
             Block(<<"2">>, "00:00:02,000", Arrow, "00:00:03,500", <<"a", "\n", "b">>) >>,
          1, 1)),
      UnreadableFile }

\* One invocation of an external tool or backend.
Call(tool, map, path, outcome) ==
    [tool |-> tool, map |-> map, path |-> path, outcome |-> outcome]

\* ------------------------------------------------------------- exceptions
\* isinstance(e, cls) for the exception classes the code names.
IsInstance(e, cls) ==
    \/ cls = "Exception"
    \/ e = cls
    \/ cls = "SubprocessError" /\ e \in {"CalledProcessError", "TimeoutExpired"}
    \/ cls = "OSError" /\ e = "FileNotFoundError"

\* The exception that leaves try: <raises e> except <classes>: <handled>;
\* "none" when nothing was raised or a clause caught it.
Uncaught(e, classes) ==
    IF e = "none" \/ \E cls \in classes : IsInstance(e, cls) THEN "none" ELSE e

\* What subprocess.run raises for an outcome of the tool; check is the
\* check=True argument.
RunRaises(rc, check) ==
    IF rc = "raise" THEN "FileNotFoundError"
    ELSE IF rc = "nonzero" /\ check THEN "CalledProcessError"
    ELSE "none"

\* ------------------------------------------------------------ construction
\* __init__ / _check_dependencies: the flag and the key after construction.
CheckDependenciesNoDowngrade(flag, api_key_arg, env_key) ==
    IF flag /\ ~Truthy(api_key_arg)
    THEN [use_openai |-> flag, openai_api_key |-> env_key]
    ELSE [use_openai |-> flag, openai_api_key |-> api_key_arg]

CheckDependencies(flag, api_key_arg, env_key) ==
    IF flag /\ ~Truthy(api_key_arg)
    THEN IF ~Truthy(env_key)
         THEN [use_openai |-> FALSE, openai_api_key |-> env_key]
         ELSE [use_openai |-> TRUE, openai_api_key |-> env_key]
    ELSE [use_openai |-> flag, openai_api_key |-> api_key_arg]

CheckFfmpegExceptNarrow == {"SubprocessError"}

\* The except clause around the run of ffmpeg -version.
CheckFfmpegExcept == {"SubprocessError", "FileNotFoundError"}

\* _check_dependencies, the probe of ffmpeg: one run with check=True; rc is
\* how that run ends.
CheckFfmpeg(rc) ==
    LET raised == RunRaises(rc, TRUE)
    IN  [calls |-> << Call("ffmpeg_version", <<>>, <<>>, rc) >>,
         logs  |-> IF raised # "none" /\ Uncaught(raised, CheckFfmpegExcept) = "none"
                   THEN << "ffmpeg is not installed or not in PATH" >>
                   ELSE <<>>,
         exc   |-> Uncaught(raised, CheckFfmpegExcept)]

\* facebook_get_video.py check_yt_dlp_installed(): the same probe, of yt-dlp,
\* returning a boolean.
CheckYtDlpInstalled(rc) ==
    LET raised == RunRaises(rc, TRUE)
    IN  [ret |-> raised = "none",
         exc |-> Uncaught(raised, {"SubprocessError", "FileNotFoundError"})]

\* The warning of the downgrade to the local engine.
KeyWarning(flag, after) ==
    IF flag /\ ~after.use_openai
    THEN << "OpenAI API key not provided. Falling back to local transcription." >>
    ELSE <<>>

\* ---------------------------------------------------------- extract_audio
\* extract_audio(): the path on exit code 0, None on any other end.
ExtractAudioExceptNarrow == {"SubprocessError"}

\* The except clause of extract_audio.
ExtractAudioExcept == {"Exception"}

ExtractAudio(output_path, rc) ==
    [ret   |-> IF rc = "ok" THEN PyStr(output_path) ELSE PyNone,
     calls |-> << Call("ffmpeg_extract_audio", <<>>, output_path, rc) >>,
     exc   |-> Uncaught(RunRaises(rc, FALSE), ExtractAudioExcept)]

\* ------------------------------------------------- transcribe_audio_local
\* transcribe_audio_local(audio_path) for a truthy audio_path.
\* The except clauses of transcribe_audio_local.
TranscribeLocalExcept == {"UnknownValueError", "RequestError", "Exception"}

\* What a backend raises for an outcome.
BackendRaises(answer) == IF answer.kind = "text" THEN "none" ELSE answer.kind

TranscribeAudioLocalReextract(audio, engine) ==
    LET answer == engine[audio.val]
    IN  [ret   |-> IF answer.kind = "text" THEN PyStr(answer.text) ELSE PyNone,
         exc   |-> "none",
         calls |-> ExtractAudio(audio.val, "ok").calls
                   \o << Call("recognize_google", <<>>, audio.val, answer.kind) >>,
         logs  |-> <<>>]

TranscribeAudioLocal(audio, engine) ==
    LET answer == engine[audio.val]
    IN  [ret   |-> IF answer.kind = "text" THEN PyStr(answer.text) ELSE PyNone,
         exc   |-> Uncaught(BackendRaises(answer), TranscribeLocalExcept),
         calls |-> << Call("recognize_google", <<>>, audio.val, answer.kind) >>,
         logs  |-> << CASE answer.kind = "text" -> "Transcription completed successfully"
                        [] answer.kind = "UnknownValueError" ->
                               "Speech recognition could not understand audio"
                        [] answer.kind = "RequestError" ->
                               "Could not request results from speech recognition service"
                        [] OTHER -> "Error transcribing audio" >>]

\* ------------------------------------------------ transcribe_audio_openai
TranscribeAudioOpenaiNoFallback(audio, remote, engine) ==
    IF remote.kind = "text"
    THEN [ret   |-> PyStr(remote.text),
          exc   |-> "none",
          calls |-> << Call("openai_transcriptions", <<>>, audio.val, "text") >>,
          logs  |-> << "OpenAI transcription completed successfully" >>]
    ELSE [ret   |-> PyNone,
          exc   |-> "none",
          calls |-> IF remote.kind = "ImportError" THEN <<>>
                    ELSE << Call("openai_transcriptions", <<>>, audio.val, remote.kind) >>,
          logs  |-> << "Error transcribing with OpenAI" >>]

\* The except clause of transcribe_audio_openai.
TranscribeOpenaiExcept == {"Exception"}

\* transcribe_audio_openai(audio_path) for a truthy audio_path.
TranscribeAudioOpenai(audio, remote, engine) ==
    IF remote.kind = "text"
    THEN [ret   |-> PyStr(remote.text),
          exc   |-> "none",
          calls |-> << Call("openai_transcriptions", <<>>, audio.val, "text") >>,
          logs  |-> << "OpenAI transcription completed successfully" >>]
    ELSE IF Uncaught(BackendRaises(remote), TranscribeOpenaiExcept) # "none"
    THEN [ret   |-> PyNone,
          exc   |-> Uncaught(BackendRaises(remote), TranscribeOpenaiExcept),
          calls |-> IF remote.kind = "ImportError" THEN <<>>
                    ELSE << Call("openai_transcriptions", <<>>, audio.val, remote.kind) >>,
          logs  |-> <<>>]
    ELSE LET local == TranscribeAudioLocal(audio, engine)
         IN  [ret   |-> local.ret,
              exc   |-> local.exc,
              calls |-> (IF remote.kind = "ImportError" THEN <<>>
                         ELSE << Call("openai_transcriptions", <<>>, audio.val,
                                      remote.kind) >>)
                        \o local.calls,
              logs  |-> << "Error transcribing with OpenAI",
                           "Falling back to local transcription" >> \o local.logs]

\* ------------------------------------------------------ extract_subtitles
\* temp_subtitle_path, the name of the NamedTemporaryFile.
TempPath == <<"tmp.srt">>

DigitChar(i) == CHOOSE d \in Digits : DigitValue(d) = i

\* f"{temp_subtitle_path}_{i}"
TempStreamPath(i) == TempPath \o <<"_", DigitChar(i)>>

\* The absolute indexes of the streams whose codec_type is 'subtitle', in the
\* order ffprobe lists them.
RECURSIVE SubtitleStreamsFrom(_, _)
SubtitleStreamsFrom(container, i) ==
    IF i > Len(container) THEN <<>>
    ELSE (IF container[i] = "subtitle" THEN <<i - 1>> ELSE <<>>)
         \o SubtitleStreamsFrom(container, i + 1)

SubtitleStreams(container) == SubtitleStreamsFrom(container, 1)

StreamCopiesRelativeIndex(streams, copied) ==
    [i \in 1..Len(streams) |->
        Call("ffmpeg_copy_subtitle", <<"0:", DigitChar(i - 1)>>,
             TempStreamPath(i - 1),
             IF streams[i] \in copied THEN "ok" ELSE "nonzero")]

\* The loop over subtitle_streams: one copy per stream, to its own file.
StreamCopies(streams, copied) ==
    [i \in 1..Len(streams) |->
        Call("ffmpeg_copy_subtitle", <<"0:", DigitChar(streams[i])>>,
             TempStreamPath(i - 1),
             IF streams[i] \in copied THEN "ok" ELSE "nonzero")]

\* The except clause of extract_subtitles.
ExtractSubtitlesExcept == {"Exception"}

ExtractSubtitlesEmptyList(container, default_rc, srt, probe_rc, copied) ==
    LET first == Call("ffmpeg_copy_subtitle", <<"0:s:0">>, TempPath, default_rc)
    IN  IF default_rc = "ok"
        THEN [ret |-> ParseSrt(srt), exc |-> "none", calls |-> <<first>>, tmp |-> {}]
        ELSE [ret |-> PyList(<<>>), exc |-> "none", calls |-> <<first>>,
              tmp |-> {TempPath}]

\* extract_subtitles(): default_rc is how the copy of stream 0:s:0 ends, srt
\* the file it writes, probe_rc how ffprobe ends, and copied the streams
\* whose copy by absolute index exits 0.
ExtractSubtitles(container, default_rc, srt, probe_rc, copied) ==
    LET first == Call("ffmpeg_copy_subtitle", <<"0:s:0">>, TempPath, default_rc)
        probe == Call("ffprobe_show_streams", <<>>, <<>>, probe_rc)
        streams == SubtitleStreams(container)
        copies == StreamCopies(streams, copied)
    IN  CASE default_rc = "raise" ->
                 [ret |-> PyNone,
                  exc |-> Uncaught(RunRaises(default_rc, FALSE), ExtractSubtitlesExcept),
                  calls |-> <<first>>, tmp |-> {TempPath}]
          [] default_rc = "ok" ->
                 [ret |-> ParseSrt(srt), exc |-> "none", calls |-> <<first>>, tmp |-> {}]
          [] default_rc = "nonzero" /\ probe_rc = "ok" ->
                 [ret   |-> PyNone,
                  exc   |-> "none",
                  calls |-> <<first, probe>> \o copies,
                  tmp   |-> {TempPath} \cup
                            { copies[i].path : i \in { j \in 1..Len(copies) :
                                                         copies[j].outcome = "ok" } }]
          [] OTHER ->
                 [ret |-> PyNone,
                  exc |-> Uncaught(RunRaises(probe_rc, FALSE), ExtractSubtitlesExcept),
                  calls |-> <<first, probe>>, tmp |-> {TempPath}]

\* ---------------------------------------------------------- process_video
\* d[k] = v on a dict.
Put(d, k, v) == [x \in DOMAIN d \cup {k} |-> IF x = k THEN v ELSE d[x]]

\* "\n".join(texts)
RECURSIVE Join(_)
Join(texts) ==
    IF texts = <<>> THEN <<>>
    ELSE IF Len(texts) = 1 THEN texts[1]
    ELSE texts[1] \o <<"\n">> \o Join(Tail(texts))

\* The dict process_video starts from.
NewResult ==
    [k \in {"video_path", "processing_time"} |->
        IF k = "video_path" THEN PyStr(<<"video.mp4">>) ELSE PyStr(<<"now">>)]

\* The two assignments after a transcription call.
WithTranscription(d, transcription, method) ==
    Put(Put(d, "transcription", transcription), "transcription_method", PyStr(<<method>>))

\* The assignments after extract_subtitles().
WithSubtitles(d, subtitles) ==
    LET d1 == Put(d, "subtitles", subtitles)
    IN  IF Truthy(subtitles)
        THEN Put(d1, "subtitle_text",
                 PyStr(Join([i \in 1..Len(subtitles.val) |-> subtitles.val[i].text])))
        ELSE d1

\* ---------------------------------------------------------- _save_results
JsonPath == <<"video_content.json">>

TextPath == <<"video_text.txt">>

Written(state, sections) == [state |-> state, sections |-> sections]

\* The sections the text file gets once result['transcription'] was read.
TextSections(d) ==
    <<"header">>
    \o (IF Truthy(d["transcription"]) THEN <<"transcription">> ELSE <<>>)
    \o (IF Truthy(d["subtitles"]) THEN <<"subtitles">> ELSE <<>>)

\* _save_results(result): the files written and the exception that leaves
\* it; fault is the file whose open() the file system refuses.
SaveResults(d, fault) ==
    IF fault = "json"
    THEN [written |-> <<>>, exc |-> "OSError"]
    ELSE IF fault = "text"
    THEN [written |-> << <<JsonPath, Written("complete", <<"record">>)>> >>,
          exc |-> "OSError"]
    ELSE IF "transcription" \notin DOMAIN d
    THEN [written |-> << <<JsonPath, Written("complete", <<"record">>)>>,
                         <<TextPath, Written("partial", <<"header">>)>> >>,
          exc |-> "KeyError"]
    ELSE [written |-> << <<JsonPath, Written("complete", <<"record">>)>>,
                         <<TextPath, Written("complete", TextSections(d))>> >>,
          exc |-> "none"]

\* The file system after the writes ws, in order.
RECURSIVE WriteAll(_, _)
WriteAll(fs, ws) ==
    IF ws = <<>> THEN fs
    ELSE WriteAll(Put(fs, ws[1][1], ws[1][2]), Tail(ws))

\* ------------------------------------------------ the run of process_video
EmptyDict == [x \in {} |-> PyNone]

\* The report file before main() of batch_process.py opened it.
NoReport == [state |-> "absent", total |-> 0, successful |-> 0, failed |-> 0, details |-> 0]

\* segment_long_audio is not being called.
SegIdle ==
    /\ seg_duration = 0
    /\ seg_length = 0
    /\ seg_pc = "idle"
    /\ seg_result = PyNone
    /\ seg_exc = "none"

\* No batch is running.
BatchIdle ==
    /\ futures = <<>>
    /\ max_workers = 0
    /\ now = "t0"
    /\ writes = {}
    /\ results = <<>>
    /\ report = NoReport
    /\ main_pc = "idle"
    /\ main_exc = "none"

\* The state of VideoContentParser.__init__ before _check_dependencies(),
\* for a video file that exists.
Init ==
    /\ pc = "construct"
    /\ video \in Containers
    /\ use_openai_arg \in BOOLEAN
    /\ use_openai = use_openai_arg
    /\ openai_api_key \in ApiKeys
    /\ exit_status = -1
    /\ BatchIdle
    /\ SegIdle
    /\ local_engine \in [AudioPaths -> LocalOutcomes]
    /\ audio_path = PyNone
    /\ result = EmptyDict
    /\ calls = <<>>
    /\ logs = <<>>
    /\ files = EmptyDict
    /\ tmp_files = {}
    /\ io_fault = "none"
    /\ exc = "none"
    /\ srt_blocks = <<>>
    /\ srt_file = TextFile(<<>>)
    /\ srt_pc = "idle"
    /\ srt_result = PyNone

\* __init__, line 55: _check_dependencies(); rc is how ffmpeg -version ends
\* and env_key the OPENAI_API_KEY of the environment.
ConstructStep ==
    /\ pc = "construct"
    /\ \E rc \in ToolOutcomes, env_key \in ApiKeys :
          LET probe == CheckFfmpeg(rc)
              c == CheckDependencies(use_openai, openai_api_key, env_key)
          IN  /\ calls' = calls \o probe.calls
              /\ exc' = probe.exc
              /\ IF probe.exc = "none"
                 THEN /\ use_openai' = c.use_openai
                      /\ openai_api_key' = c.openai_api_key
                      /\ logs' = logs \o probe.logs \o KeyWarning(use_openai, c)
                      /\ pc' = "extract_audio"
                 ELSE /\ UNCHANGED <<use_openai, openai_api_key, logs>>
                      /\ pc' = "raised"
    /\ UNCHANGED <<use_openai_arg, exit_status, video, local_engine, audio_path, result,
                   files, tmp_files, io_fault>>
    /\ UNCHANGED srt_vars
    /\ UNCHANGED batch_vars
    /\ UNCHANGED seg_vars

\* process_video, lines 347-353: the result dict and extract_audio().
ExtractAudioStep ==
    /\ pc = "extract_audio"
    /\ \E output_path \in AudioPaths, rc \in AudioOutcomes(video) :
          LET a == ExtractAudio(output_path, rc)
          IN  /\ audio_path' = a.ret
              /\ calls' = calls \o a.calls
              /\ files' = IF rc = "ok"
                          THEN Put(files, output_path, Written("complete", <<"audio">>))
                          ELSE files
              /\ exc' = a.exc
              /\ pc' = IF a.exc # "none" THEN "raised"
                       ELSE IF Truthy(a.ret) THEN "transcribe" ELSE "extract_subtitles"
    /\ result' = NewResult
    /\ UNCHANGED <<use_openai_arg, exit_status, video, use_openai, openai_api_key,
                   local_engine, logs, tmp_files, io_fault>>
    /\ UNCHANGED srt_vars
    /\ UNCHANGED batch_vars
    /\ UNCHANGED seg_vars

\* process_video, lines 355-363: the transcription of the extracted audio.
TranscribeStep ==
    /\ pc = "transcribe"
    /\ IF use_openai /\ Truthy(openai_api_key)
       THEN \E remote \in RemoteOutcomes :
               LET t == TranscribeAudioOpenai(audio_path, remote, local_engine)
               IN  /\ result' = IF t.exc = "none"
                                 THEN WithTranscription(result, t.ret, "openai")
                                 ELSE result
                   /\ calls' = calls \o t.calls
                   /\ logs' = logs \o t.logs
                   /\ exc' = t.exc
                   /\ pc' = IF t.exc = "none" THEN "extract_subtitles" ELSE "raised"
       ELSE LET t == TranscribeAudioLocal(audio_path, local_engine)
            IN  /\ result' = IF t.exc = "none"
                              THEN WithTranscription(result, t.ret, "local")
                              ELSE result
                /\ calls' = calls \o t.calls
                /\ logs' = logs \o t.logs
                /\ exc' = t.exc
                /\ pc' = IF t.exc = "none" THEN "extract_subtitles" ELSE "raised"
    /\ UNCHANGED <<use_openai_arg, exit_status, video, use_openai, openai_api_key,
                   local_engine, audio_path, files, tmp_files, io_fault>>
    /\ UNCHANGED srt_vars
    /\ UNCHANGED batch_vars
    /\ UNCHANGED seg_vars

\* process_video, lines 365-372: extract_subtitles() and the subtitle fields.
ExtractSubtitlesStep ==
    /\ pc = "extract_subtitles"
    /\ \E default_rc \in SubtitleOutcomes(video), srt \in SampleFiles,
          probe_rc \in ToolOutcomes,
          copied \in SUBSET { SubtitleStreams(video)[i] :
                                i \in 1..Len(SubtitleStreams(video)) } :
          LET x == ExtractSubtitles(video, default_rc, srt, probe_rc, copied)
          IN  /\ result' = IF x.exc = "none" THEN WithSubtitles(result, x.ret) ELSE result
              /\ calls' = calls \o x.calls
              /\ tmp_files' = tmp_files \cup x.tmp
              /\ exc' = x.exc
              /\ pc' = IF x.exc = "none" THEN "save_results" ELSE "raised"
              /\ srt_file' = IF default_rc = "ok" THEN srt ELSE srt_file
    /\ UNCHANGED <<use_openai_arg, exit_status, video, use_openai, openai_api_key,
                   local_engine, audio_path, logs, files, io_fault>>
    /\ UNCHANGED <<srt_blocks, srt_pc, srt_result>>
    /\ UNCHANGED batch_vars
    /\ UNCHANGED seg_vars

\* process_video, lines 374-377: _save_results(result), then the return.
SaveResultsStep ==
    /\ pc = "save_results"
    /\ \E fault \in {"none", "json", "text"} :
          LET w == SaveResults(result, fault)
          IN  /\ io_fault' = fault
              /\ files' = WriteAll(files, w.written)
              /\ exc' = w.exc
              /\ pc' = IF w.exc = "none" THEN "returned" ELSE "raised"
    /\ UNCHANGED <<use_openai_arg, exit_status, video, use_openai, openai_api_key,
                   local_engine, audio_path, result, calls, logs, tmp_files>>
    /\ UNCHANGED srt_vars
    /\ UNCHANGED batch_vars
    /\ UNCHANGED seg_vars

\* parse_video.py main(): the except clause around the construction and
\* process_video().
MainExcept == {"Exception"}

\* The exit status of the interpreter after main() ended with e.
ExitStatus(e) == IF Uncaught(e, MainExcept) = "none" THEN 0 ELSE 1

\* main(), lines 132-154: process_video() returned or raised; the summary or
\* the error is printed and the process ends.
MainExitStep ==
    /\ pc \in {"returned", "raised"}
    /\ exit_status' = ExitStatus(exc)
    /\ logs' = logs \o (IF exc = "none" THEN <<>> ELSE << "Error processing video" >>)
    /\ pc' = "exited"
    /\ UNCHANGED <<use_openai_arg, video, use_openai, openai_api_key, local_engine,
                   audio_path, result, calls, files, tmp_files, io_fault, exc>>
    /\ UNCHANGED srt_vars
    /\ UNCHANGED batch_vars
    /\ UNCHANGED seg_vars

Next ==
    \/ ConstructStep
    \/ ExtractAudioStep
    \/ TranscribeStep
    \/ ExtractSubtitlesStep
    \/ SaveResultsStep
    \/ MainExitStep

Spec == Init /\ [][Next]_vars

\* ------------------------------------------------------ _parse_srt alone
\* A subtitle file made of up to MaxBlocks blocks, or one that cannot be read.
InitSrt ==
    /\ srt_blocks \in BlockSeqs
    /\ \E gap \in 1..2, trailer \in 0..2, readable \in BOOLEAN :
          srt_file = IF readable THEN TextFile(RenderFile(srt_blocks, gap, trailer))
                     ELSE UnreadableFile
    /\ srt_pc = "ready"
    /\ srt_result = PyNone
    /\ BatchIdle
    /\ SegIdle
    /\ pc = "idle"
    /\ use_openai_arg = FALSE
    /\ exit_status = -1
    /\ video = <<"video">>
    /\ use_openai = FALSE
    /\ openai_api_key = PyNone
    /\ local_engine = [p \in AudioPaths |-> [kind |-> "Exception", text |-> <<>>]]
    /\ audio_path = PyNone
    /\ result = EmptyDict
    /\ calls = <<>>
    /\ logs = <<>>
    /\ files = EmptyDict
    /\ tmp_files = {}
    /\ io_fault = "none"
    /\ exc = "none"

\* _parse_srt(srt_path)
ParseSrtStep ==
    /\ srt_pc = "ready"
    /\ srt_result' = ParseSrt(srt_file)
    /\ srt_pc' = "parsed"
    /\ UNCHANGED <<srt_blocks, srt_file>>
    /\ UNCHANGED pipeline_vars
    /\ UNCHANGED batch_vars
    /\ UNCHANGED seg_vars

NextSrt == ParseSrtStep

SpecSrt == InitSrt /\ [][NextSrt]_vars

\* ------------------------------------------------- batch_process.py main()
\* The readings of datetime.now() during a batch, to the second.
ClockValues == {"t0", "t1"}

\* self.output_dir / f"audio_{timestamp}.wav" at clock reading t.
AudioPathAt(t) == IF t = "t0" THEN <<"audio_1.wav">> ELSE <<"audio_2.wav">>

\* An output path of _save_results at clock reading t: the name with the
\* timestamp, under the output directory every worker is given.
OutputPathAt(name, t) == name \o <<t>>

\* What the recognizer answers in a batch: a text, or unintelligible audio.
BatchAnswers == { a \in LocalOutcomes : a.kind \in {"text", "UnknownValueError"} }

\* A future that has no value yet.
NoValue == [video_path |-> 0, success |-> FALSE, result |-> EmptyDict, error |-> "none"]

ProcessVideoFileExceptNothing == {}

\* The except clause of process_video_file.
ProcessVideoFileExcept == {"Exception"}

\* process_video_file(video_path, ...): run is how the construction and
\* process_video() ended; raised is what leaves the function, value what it
\* returns.
ProcessVideoFile(video_path, run) ==
    IF Uncaught(run.exc, ProcessVideoFileExcept) # "none"
    THEN [raised |-> run.exc, value |-> NoValue]
    ELSE [raised |-> "none",
          value  |-> IF run.exc = "none"
                     THEN [video_path |-> video_path, success |-> TRUE,
                           result |-> run.result, error |-> "none"]
                     ELSE [video_path |-> video_path, success |-> FALSE,
                           result |-> EmptyDict, error |-> run.exc]]

\* process_video() after extract_audio() returned audio, without
\* --use-openai, on a video without subtitle stream: answer is what the
\* recognizer does and fault the output file that cannot be opened.
ProcessVideoRest(audio, answer, fault) ==
    LET engine == [p \in AudioPaths |-> answer]
        d1 == IF Truthy(audio)
              THEN WithTranscription(NewResult, TranscribeAudioLocal(audio, engine).ret,
                                     "local")
              ELSE NewResult
        x  == ExtractSubtitles(<<"video", "audio">>, "nonzero", TextFile(<<>>), "ok", {})
        d2 == WithSubtitles(d1, x.ret)
        w  == SaveResults(d2, fault)
    IN  [exc |-> w.exc, result |-> d2, written |-> w.written]

\* len(result['result']['transcription']) of the report loop raises on None.
ReportRaises(r) ==
    /\ r.success
    /\ "transcription" \in DOMAIN r.result
    /\ r.result["transcription"].type = "NoneType"

\* The summary report written from the results rs, and the exception that
\* leaves the writing loop.
WriteReport(rs) ==
    LET bad == { i \in 1..Len(rs) : ReportRaises(rs[i]) }
        first == CHOOSE i \in bad : \A j \in bad : i <= j
    IN  [exc  |-> IF bad = {} THEN "none" ELSE "TypeError",
         file |-> [state |-> IF bad = {} THEN "complete" ELSE "partial",
                   total |-> Len(rs),
                   successful |-> Cardinality({ i \in 1..Len(rs) : rs[i].success }),
                   failed |-> Cardinality({ i \in 1..Len(rs) : ~rs[i].success }),
                   details |-> IF bad = {} THEN Len(rs) ELSE first - 1]]

\* main() after executor.submit() for each of the NumVideos files found.
InitBatch ==
    /\ futures = [w \in 1..NumVideos |->
                     [pc |-> "queued", audio |-> PyNone, raised |-> "none",
                      value |-> NoValue]]
    /\ max_workers \in 1..NumVideos
    /\ now = "t0"
    /\ writes = {}
    /\ results = <<>>
    /\ report = NoReport
    /\ main_pc = "collect"
    /\ main_exc = "none"
    /\ pc = "idle"
    /\ use_openai_arg = FALSE
    /\ exit_status = -1
    /\ video = <<"video", "audio">>
    /\ use_openai = FALSE
    /\ openai_api_key = PyNone
    /\ local_engine = [p \in AudioPaths |-> [kind |-> "Exception", text |-> <<>>]]
    /\ audio_path = PyNone
    /\ result = EmptyDict
    /\ calls = <<>>
    /\ logs = <<>>
    /\ files = EmptyDict
    /\ tmp_files = {}
    /\ io_fault = "none"
    /\ exc = "none"
    /\ srt_blocks = <<>>
    /\ srt_file = TextFile(<<>>)
    /\ srt_pc = "idle"
    /\ srt_result = PyNone
    /\ SegIdle

Running == { w \in 1..NumVideos : futures[w].pc \in {"extract_audio", "process"} }

\* A thread of the pool takes the next submitted call, in submission order.
StartWorker(w) ==
    /\ futures[w].pc = "queued"
    /\ \A v \in 1..(w - 1) : futures[v].pc # "queued"
    /\ Cardinality(Running) < max_workers
    /\ futures' = [futures EXCEPT ![w].pc = "extract_audio"]
    /\ UNCHANGED <<max_workers, now, writes, results, report, main_pc, main_exc>>
    /\ UNCHANGED pipeline_vars
    /\ UNCHANGED srt_vars
    /\ UNCHANGED seg_vars

\* Worker w: process_video() up to extract_audio(), which names its output
\* by the clock.
WorkerExtractAudio(w) ==
    /\ futures[w].pc = "extract_audio"
    /\ \E rc \in {"ok", "nonzero"} :
          LET a == ExtractAudio(AudioPathAt(now), rc)
          IN  /\ futures' = [futures EXCEPT ![w].pc = "process", ![w].audio = a.ret]
              /\ writes' = IF rc = "ok"
                           THEN writes \cup {[path |-> AudioPathAt(now), by |-> w]}
                           ELSE writes
    /\ UNCHANGED <<max_workers, now, results, report, main_pc, main_exc>>
    /\ UNCHANGED pipeline_vars
    /\ UNCHANGED srt_vars
    /\ UNCHANGED seg_vars

\* Worker w: the rest of process_video(), _save_results() naming its files
\* by the clock, and the return of process_video_file().
WorkerFinish(w) ==
    /\ futures[w].pc = "process"
    /\ \E answer \in BatchAnswers, fault \in {"none", "json"} :
          LET run == ProcessVideoRest(futures[w].audio, answer, fault)
              f == ProcessVideoFile(w, run)
          IN  /\ futures' = [futures EXCEPT ![w].pc = "done", ![w].raised = f.raised,
                                            ![w].value = f.value]
              /\ writes' = writes \cup
                    { [path |-> OutputPathAt(run.written[i][1], now), by |-> w] :
                        i \in 1..Len(run.written) }
    /\ UNCHANGED <<max_workers, now, results, report, main_pc, main_exc>>
    /\ UNCHANGED pipeline_vars
    /\ UNCHANGED srt_vars
    /\ UNCHANGED seg_vars

\* A second passes.
Tick ==
    /\ main_pc \in {"collect", "report"}
    /\ now = "t0"
    /\ now' = "t1"
    /\ UNCHANGED <<futures, max_workers, writes, results, report, main_pc, main_exc>>
    /\ UNCHANGED pipeline_vars
    /\ UNCHANGED srt_vars
    /\ UNCHANGED seg_vars

\* main(), lines 164-165: results.append(future.result()) for the next
\* future of the list, once it is done.
CollectStep ==
    /\ main_pc = "collect"
    /\ LET i == Len(results) + 1
       IN  /\ futures[i].pc = "done"
           /\ IF futures[i].raised = "none"
              THEN /\ results' = Append(results, futures[i].value)
                   /\ main_pc' = IF i = NumVideos THEN "report" ELSE "collect"
                   /\ main_exc' = main_exc
              ELSE /\ results' = results
                   /\ main_pc' = "raised"
                   /\ main_exc' = futures[i].raised
    /\ UNCHANGED <<futures, max_workers, now, writes, report>>
    /\ UNCHANGED pipeline_vars
    /\ UNCHANGED srt_vars
    /\ UNCHANGED seg_vars

\* main(), lines 167-199: the summary report.
WriteReportStep ==
    /\ main_pc = "report"
    /\ LET r == WriteReport(results)
       IN  /\ report' = r.file
           /\ main_exc' = r.exc
           /\ main_pc' = IF r.exc = "none" THEN "done" ELSE "raised"
    /\ UNCHANGED <<futures, max_workers, now, writes, results>>
    /\ UNCHANGED pipeline_vars
    /\ UNCHANGED srt_vars
    /\ UNCHANGED seg_vars

NextBatch ==
    \/ \E w \in 1..NumVideos : StartWorker(w)
    \/ \E w \in 1..NumVideos : WorkerExtractAudio(w)
    \/ \E w \in 1..NumVideos : WorkerFinish(w)
    \/ Tick
    \/ CollectStep
    \/ WriteReportStep

SpecBatch == InitBatch /\ [][NextBatch]_vars

\* ------------------------------------------------------ segment_long_audio
Min(a, b) == IF a <= b THEN a ELSE b

\* What duration_ms // segment_length_ms raises.
FloorDivRaises(L) == IF L = 0 THEN "ZeroDivisionError" ELSE "none"

SegmentCountFloor(d, L) == d \div L

\* num_segments, for a segment length that is not 0.
SegmentCount(d, L) == (d \div L) + (IF d % L > 0 THEN 1 ELSE 0)

\* audio[start_ms:end_ms] on an audio of d ms: the slice is clipped to the
\* audio.
Slice(d, start_ms, end_ms) == [start |-> Min(start_ms, d), end |-> Min(end_ms, d)]

\* The loop over range(num_segments): the span of each exported segment and
\* the number in its file name.
SegmentsOf(d, L) ==
    [k \in 1..SegmentCount(d, L) |->
        LET i == k - 1
            span == Slice(d, i * L, Min((i + 1) * L, d))
        IN  [start |-> span.start, end |-> span.end, number |-> i]]

\* The except clause of segment_long_audio.
SegmentLongAudioExcept == {"Exception"}

\* segment_long_audio(audio_path, segment_length_ms) on an audio of d ms
\* that loads and whose segments can be exported.
SegmentLongAudio(d, L) ==
    IF FloorDivRaises(L) # "none"
    THEN [ret |-> PyNone, exc |-> Uncaught(FloorDivRaises(L), SegmentLongAudioExcept)]
    ELSE [ret |-> PyList(SegmentsOf(d, L)), exc |-> "none"]

\* A call on an audio of up to MaxDuration ms with a segment length of up to
\* MaxSegmentLength ms, 0 included.
InitSeg ==
    /\ seg_duration \in 0..MaxDuration
    /\ seg_length \in 0..MaxSegmentLength
    /\ seg_pc = "ready"
    /\ seg_result = PyNone
    /\ seg_exc = "none"
    /\ BatchIdle
    /\ pc = "idle"
    /\ use_openai_arg = FALSE
    /\ exit_status = -1
    /\ video = <<"video", "audio">>
    /\ use_openai = FALSE
    /\ openai_api_key = PyNone
    /\ local_engine = [p \in AudioPaths |-> [kind |-> "Exception", text |-> <<>>]]
    /\ audio_path = PyNone
    /\ result = EmptyDict
    /\ calls = <<>>
    /\ logs = <<>>
    /\ files = EmptyDict
    /\ tmp_files = {}
    /\ io_fault = "none"
    /\ exc = "none"
    /\ srt_blocks = <<>>
    /\ srt_file = TextFile(<<>>)
    /\ srt_pc = "idle"
    /\ srt_result = PyNone

\* segment_long_audio(audio_path, segment_length_ms)
SegmentStep ==
    /\ seg_pc = "ready"
    /\ LET r == SegmentLongAudio(seg_duration, seg_length)
       IN  /\ seg_result' = r.ret
           /\ seg_exc' = r.exc
    /\ seg_pc' = "done"
    /\ UNCHANGED <<seg_duration, seg_length>>
    /\ UNCHANGED pipeline_vars
    /\ UNCHANGED srt_vars
    /\ UNCHANGED batch_vars

NextSeg == SegmentStep

SpecSeg == InitSeg /\ [][NextSeg]_vars

\* ------------------------------------------------------------- properties
\* process_video has ended, by returning or by raising.
Finished == pc \in {"returned", "raised"}

\* The transcription stage of process_video is over (it was skipped when
\* extract_audio returned None).
PastTranscription ==
    pc \in {"extract_subtitles", "save_results", "returned", "raised", "exited"}

\* The subtitle stage of process_video is over.
PastSubtitles == pc \in {"save_results", "returned", "raised", "exited"}

Called(tool) == \E i \in 1..Len(calls) : calls[i].tool = tool

CalledWith(tool, outcome) ==
    \E i \in 1..Len(calls) : calls[i].tool = tool /\ calls[i].outcome = outcome

FileComplete(path) == path \in DOMAIN files /\ files[path].state = "complete"

\* C1: whatever the outcomes of the audio, transcription and subtitle stages,
\* if no output file write fails then process_video ends by returning, with
\* the JSON record and the text file both written in full.
C1_AlwaysPersisted ==
    (Finished /\ io_fault = "none") =>
        /\ pc = "returned"
        /\ exc = "none"
        /\ FileComplete(JsonPath)
        /\ FileComplete(TextPath)

\* C2: when extract_audio returned its failure marker (and no write fails),
\* no transcription backend was invoked, the record has no transcription
\* result, and no exception left process_video.
C2_AudioFailureSkipsTranscription ==
    (Finished /\ ~Truthy(audio_path) /\ io_fault = "none") =>
        /\ ~Called("openai_transcriptions")
        /\ ~Called("recognize_google")
        /\ "transcription" \notin DOMAIN result
        /\ exc = "none"

\* C3: the recorded transcription_method names the backend that produced the
\* text: "openai" only when the remote request itself returned it, "local"
\* whenever the local engine returned it (fallback included).
C3_MethodNamesProducer ==
    (PastTranscription /\ "transcription" \in DOMAIN result
                       /\ result["transcription"].type = "str") =>
        result["transcription_method"] =
            PyStr(<< IF CalledWith("openai_transcriptions", "text")
                     THEN "openai" ELSE "local" >>)

\* The remote branch of process_video was taken and the remote backend failed.
RemoteFailed ==
    /\ PastTranscription
    /\ Truthy(audio_path)
    /\ use_openai /\ Truthy(openai_api_key)
    /\ ~CalledWith("openai_transcriptions", "text")

\* C4: when the remote backend fails, in any way, the transcription of the
\* run is exactly what transcribe_audio_local returns for the same audio
\* file, the local engine was called on that file, and nothing was raised.
C4_FallbackEqualsLocalOnly ==
    RemoteFailed =>
        /\ result["transcription"] = TranscribeAudioLocal(audio_path, local_engine).ret
        /\ \E i \in 1..Len(calls) :
              calls[i] = Call("recognize_google", <<>>, audio_path.val,
                              local_engine[audio_path.val].kind)
        /\ exc \in {"none", "OSError"}

\* A run in which the remote request raised and the fallback produced text.
C4_Witness ==
    /\ RemoteFailed
    /\ CalledWith("openai_transcriptions", "APIError")
    /\ Truthy(result["transcription"])

\* C5: the transcription of a record is never partially populated: either a
\* non-empty text with a method, or no text (absent or None) and no method.
C5_TranscriptionNeverPartial ==
    PastTranscription =>
        \/ /\ "transcription" \in DOMAIN result
           /\ Truthy(result["transcription"])
           /\ "transcription_method" \in DOMAIN result
        \/ /\ "transcription" \in DOMAIN result => result["transcription"] = PyNone
           /\ "transcription_method" \notin DOMAIN result

\* The copy of the default stream failed and a copy by absolute index worked.
FallbackCopied ==
    /\ PastSubtitles
    /\ \E i \in 1..Len(calls) :
          /\ calls[i].tool = "ffmpeg_copy_subtitle"
          /\ calls[i].map = <<"0:s:0">>
          /\ calls[i].outcome = "nonzero"
    /\ \E i \in 1..Len(calls) :
          /\ calls[i].tool = "ffmpeg_copy_subtitle"
          /\ calls[i].map # <<"0:s:0">>
          /\ calls[i].outcome = "ok"

\* C6: when the default-stream copy fails and a subtitle stream found by the
\* probe is copied by absolute index, the record's subtitles are populated.
C6_FallbackSubtitlesReturned ==
    FallbackCopied => Truthy(result["subtitles"])

\* The subtitle stage ran on a container without any subtitle stream.
NoSubtitleStreams == PastSubtitles /\ ~HasStream(video, "subtitle")

\* C7 as stated: for a container with zero subtitle streams the record's
\* subtitles field is an empty sequence.
C7_EmptySequenceWithoutStreams ==
    NoSubtitleStreams => result["subtitles"] = PyList(<<>>)

\* C7 as amended: for a container with zero subtitle streams
\* extract_subtitles returns None (the value it also returns on an error),
\* and the record has subtitles None and no subtitle_text.
C7_NoneWithoutStreams ==
    NoSubtitleStreams =>
        /\ result["subtitles"] = PyNone
        /\ "subtitle_text" \notin DOMAIN result

\* A run whose probe found no subtitle stream in the container.
C7_Witness ==
    /\ NoSubtitleStreams
    /\ CalledWith("ffprobe_show_streams", "ok")
    /\ ~\E i \in 1..Len(calls) : calls[i].map \notin {<<>>, <<"0:s:0">>}

\* The entry a block of the grammar stands for.
ExpectedEntry(b) ==
    [index |-> IntOf(b.index),
     start_time |-> b.start,
     end_time |-> b.end,
     text |-> Strip(b.text)]

\* Position of a timestamp in the lexical order of the timestamps.
TsRank(t) ==
    CASE t = "00:00:01,000" -> 1
      [] t = "00:00:02,000" -> 2
      [] t = "00:00:03,500" -> 3

\* The parsed file is readable and made of blocks of the grammar only.
GrammarOnly ==
    /\ srt_file.readable
    /\ \A i \in 1..Len(srt_blocks) : srt_blocks[i] \in GrammarBlocks

\* C8: a file of N well-formed blocks parses to exactly N entries, in source
\* order, each with its block's index, start_time, end_time and trimmed text.
C8_WellFormedBlocksAllParsed ==
    (srt_pc = "parsed" /\ GrammarOnly) =>
        srt_result = PyList([i \in 1..Len(srt_blocks) |-> ExpectedEntry(srt_blocks[i])])

\* A parsed file of several well-formed blocks, with a multi-line text and a
\* non-contiguous index, whose last block is not terminated.
C8_Witness ==
    /\ srt_pc = "parsed"
    /\ GrammarOnly
    /\ Len(srt_blocks) >= 2
    /\ \E i \in 1..Len(srt_blocks) : srt_blocks[i].index = <<"1", "0">>
    /\ \E i \in 1..Len(srt_blocks) : srt_blocks[i].text = <<"a", "\n", "b">>
    /\ srt_file.content[Len(srt_file.content)] # "\n"
    /\ Len(srt_result.val) = Len(srt_blocks)

\* C9: every entry returned by the parser has end_time strictly after
\* start_time in the lexical order of the timestamps.
C9_EndAfterStart ==
    (srt_pc = "parsed" /\ srt_result.type = "list") =>
        \A i \in 1..Len(srt_result.val) :
            TsRank(srt_result.val[i].end_time) > TsRank(srt_result.val[i].start_time)

\* The well-formed blocks among bs, in order.
WellFormedOf(bs) == SelectSeq(bs, LAMBDA b : b \in GrammarBlocks)

\* C10: a file of well-formed and out-of-grammar blocks parses to the entries
\* of its well-formed blocks only, with their own texts, and never raises.
C10_MalformedBlocksDropped ==
    (srt_pc = "parsed" /\ srt_file.readable
        /\ \A i \in 1..Len(srt_blocks) :
              srt_blocks[i] \in GrammarBlocks =>
                  TsRank(srt_blocks[i].end) > TsRank(srt_blocks[i].start)) =>
        srt_result = PyList([i \in 1..Len(WellFormedOf(srt_blocks)) |->
                                ExpectedEntry(WellFormedOf(srt_blocks)[i])])

\* C11: when an output file cannot be written in _save_results, the CLI run
\* ends with a non-zero exit status.
C11_PersistenceFailureNonZeroExit ==
    (pc = "exited" /\ io_fault # "none") => exit_status # 0

\* What the external tools and the speech backends can raise.
CollaboratorExceptions ==
    {"FileNotFoundError", "CalledProcessError", "TimeoutExpired",
     "UnknownValueError", "RequestError", "Exception", "APIError", "ImportError"}

\* C12: no exception of an external tool or backend leaves extract_audio,
\* transcribe_audio_local, transcribe_audio_openai or extract_subtitles: the
\* stage after a raising collaborator is reached with a value stored, and
\* the only exceptions that end process_video are those of _save_results.
C12_NoCollaboratorExceptionEscapes ==
    /\ exc \notin CollaboratorExceptions
    /\ pc \in {"raised", "exited"} /\ exc # "none" =>
           /\ PastSubtitles
           /\ "subtitles" \in DOMAIN result
           /\ exc \in {"OSError", "KeyError"}
    /\ PastTranscription /\ CalledWith("ffmpeg_extract_audio", "raise") =>
           audio_path = PyNone
    /\ PastTranscription /\ Called("recognize_google") =>
           "transcription" \in DOMAIN result
    /\ PastSubtitles /\ Called("ffmpeg_copy_subtitle") => "subtitles" \in DOMAIN result

\* A run that returned although the remote request, the local engine and
\* the subtitle copy all raised.
C12_Witness ==
    /\ pc = "returned"
    /\ CalledWith("openai_transcriptions", "APIError")
    /\ CalledWith("recognize_google", "RequestError")
    /\ CalledWith("ffmpeg_copy_subtitle", "raise")
    /\ result["transcription"] = PyNone
    /\ result["subtitles"] = PyNone

\* C15: after construction use_openai implies a non-empty key, and the flag
\* is dropped only when it was set without any key; the remote backend is
\* requested only with the flag set and a key present, and whenever the
\* transcription stage ran without them the local engine alone was called.
C15_RemoteOnlyWithCredential ==
    /\ pc # "construct" =>
           /\ use_openai => Truthy(openai_api_key)
           /\ use_openai_arg /\ Truthy(openai_api_key) => use_openai
           /\ use_openai => use_openai_arg
    /\ Called("openai_transcriptions") => use_openai /\ Truthy(openai_api_key)
    /\ PastTranscription /\ "transcription" \in DOMAIN result
                         /\ ~(use_openai /\ Truthy(openai_api_key)) =>
           /\ Called("recognize_google")
           /\ ~Called("openai_transcriptions")

\* A run constructed with the flag set and no key anywhere: the flag was
\* dropped and the local engine transcribed.
C15_Witness ==
    /\ pc = "returned"
    /\ use_openai_arg
    /\ ~use_openai
    /\ ~Truthy(openai_api_key)
    /\ CalledWith("recognize_google", "text")
    /\ ~Called("openai_transcriptions")

\* The runs of ffmpeg -version so far.
ProbeCalls == { i \in 1..Len(calls) : calls[i].tool = "ffmpeg_version" }

ProbeWarned ==
    \E i \in 1..Len(logs) : logs[i] = "ffmpeg is not installed or not in PATH"

\* C16: however ffmpeg -version ends (exit 0, non-zero exit, executable not
\* found), it is run exactly once, a failure leaves a warning and nothing
\* else, and construction completes: process_video is entered.  The probe
\* of yt-dlp returns True on exit 0 and False otherwise, without raising.
C16_ProbeNeverAborts ==
    pc # "construct" =>
        /\ ProbeCalls = {1}
        /\ ProbeWarned <=> calls[1].outcome # "ok"
        /\ exc \notin {"FileNotFoundError", "CalledProcessError"}
        /\ pc = "extract_audio" \/ "video_path" \in DOMAIN result
        /\ \A rc \in ToolOutcomes :
              CheckYtDlpInstalled(rc) = [ret |-> rc = "ok", exc |-> "none"]

\* A run that returned after ffmpeg -version was not found as an executable.
C16_Witness ==
    /\ pc = "returned"
    /\ calls[1] = Call("ffmpeg_version", <<>>, <<>>, "raise")
    /\ ProbeWarned

\* The audio was extracted and the local engine produced no text.
SilentAudio ==
    /\ pc \in {"returned", "raised", "exited"}
    /\ CalledWith("ffmpeg_extract_audio", "ok")
    /\ \/ CalledWith("recognize_google", "UnknownValueError")
       \/ CalledWith("recognize_google", "RequestError")
    /\ io_fault = "none"

\* A subtitle stream of the container was copied out: the default stream,
\* to a file holding at least one block, or a stream found by the probe.
SubtitlesCopied ==
    \/ /\ CalledWith("ffmpeg_copy_subtitle", "ok")
       /\ ~FallbackCopied
       /\ Truthy(ParseSrt(srt_file))
    \/ FallbackCopied

\* C17: when the audio is extracted and the recognizer yields no text, the
\* transcription is None, process_video returns with both files written,
\* and the record's subtitles are populated whenever a subtitle stream of
\* the container was copied out.
C17_SilentAudioKeepsSubtitles ==
    SilentAudio =>
        /\ result["transcription"] = PyNone
        /\ exc = "none"
        /\ FileComplete(JsonPath)
        /\ FileComplete(TextPath)
        /\ SubtitlesCopied => Truthy(result["subtitles"])

\* The position of a point of the run in the order of the stages.
Rank(p) ==
    CASE p = "construct" -> 0
      [] p = "extract_audio" -> 1
      [] p = "transcribe" -> 2
      [] p = "extract_subtitles" -> 3
      [] p = "save_results" -> 4
      [] p \in {"returned", "raised"} -> 5
      [] OTHER -> 6

\* The stage an external call belongs to.
StageOf(tool) ==
    CASE tool = "ffmpeg_version" -> 0
      [] tool = "ffmpeg_extract_audio" -> 1
      [] tool \in {"openai_transcriptions", "recognize_google"} -> 2
      [] OTHER -> 3

\* The external calls made so far are grouped by stage, in stage order, with
\* one audio extraction at most, none of them belongs to a stage that has
\* not been entered, and output files exist only once persistence ran.
StageCallsOrdered ==
    /\ \A i, j \in 1..Len(calls) :
          i < j => StageOf(calls[i].tool) <= StageOf(calls[j].tool)
    /\ Cardinality({ i \in 1..Len(calls) : calls[i].tool = "ffmpeg_extract_audio" }) <= 1
    /\ \A i \in 1..Len(calls) : StageOf(calls[i].tool) < Rank(pc)
    /\ JsonPath \in DOMAIN files \/ TextPath \in DOMAIN files => Rank(pc) >= 5

\* C18: every step of a run moves to a later stage (audio extraction, then
\* transcription, then subtitle extraction, then persistence), never back
\* and never to the same stage again, and the external calls of the stages
\* follow that order.
C18_StagesInOrder == [][Rank(pc') > Rank(pc) /\ StageCallsOrdered']_vars

\* A run that went through all four stages.
C18_Witness ==
    /\ pc = "returned"
    /\ CalledWith("ffmpeg_extract_audio", "ok")
    /\ Called("openai_transcriptions")
    /\ Called("recognize_google")
    /\ Called("ffprobe_show_streams")
    /\ FileComplete(TextPath)

\* The copies by absolute stream index attempted so far, in order.
IndexCopies ==
    SelectSeq(calls, LAMBDA c : c.tool = "ffmpeg_copy_subtitle" /\ c.map # <<"0:s:0">>)

\* The absolute indexes of the subtitle streams of the container.
SubtitleIndexes == { k \in 0..(Len(video) - 1) : video[k + 1] = "subtitle" }

\* The subtitle stage took the fallback path: the default copy exited
\* non-zero and the probe exited 0.
FallbackPath ==
    /\ PastSubtitles
    /\ \E i \in 1..Len(calls) :
          /\ calls[i].tool = "ffmpeg_copy_subtitle"
          /\ calls[i].map = <<"0:s:0">>
          /\ calls[i].outcome = "nonzero"
    /\ CalledWith("ffprobe_show_streams", "ok")

\* C19: on the fallback path one copy is attempted per subtitle stream of
\* the container, addressed 0:<absolute index>, in increasing index order,
\* whatever the outcome of the copies before it; no other stream is ever
\* addressed, and off the fallback path no copy by index is attempted.
C19_EverySubtitleStreamAttempted ==
    /\ \A i \in 1..Len(IndexCopies) :
          \E k \in SubtitleIndexes :
             /\ IndexCopies[i].map = <<"0:", DigitChar(k)>>
             /\ Cardinality({ j \in SubtitleIndexes : j < k }) = i - 1
    /\ Len(IndexCopies) = IF FallbackPath THEN Cardinality(SubtitleIndexes) ELSE 0

\* Two subtitle streams at indexes 1 and 3: the copy of the first failed and
\* the copy of the second was still attempted.
C19_Witness ==
    /\ FallbackPath
    /\ Len(IndexCopies) = 2
    /\ IndexCopies[1].map = <<"0:", "1">> /\ IndexCopies[1].outcome = "nonzero"
    /\ IndexCopies[2].map = <<"0:", "3">> /\ IndexCopies[2].outcome = "ok"

\* C13: no two workers of a batch ever write the same output path (audio
\* file, JSON record or text file).
C13_NoSharedOutputPath ==
    \A x, y \in writes : x.path = y.path => x.by = y.by

\* C14: once main() is past the collection loop there is exactly one result
\* per submitted video, in submission order, with success=True and the
\* record when process_video returned and success=False and the error when
\* it raised; no future ever raises, so the loop is never left early.
C14_OneResultPerVideo ==
    /\ \A w \in 1..NumVideos : futures[w].raised = "none"
    /\ \A i \in 1..Len(results) :
          /\ results[i] = futures[i].value
          /\ results[i].video_path = i
          /\ results[i].success <=> results[i].error = "none"
          /\ results[i].success => "subtitles" \in DOMAIN results[i].result
    /\ main_pc \in {"report", "done", "raised"} =>
          /\ Len(results) = NumVideos
          /\ \A w \in 1..NumVideos : futures[w].pc = "done"

\* A batch run one video at a time: the first worker failed and the second,
\* started after it, succeeded; both results were collected.
C14_Witness ==
    /\ main_pc = "report"
    /\ max_workers = 1
    /\ ~results[1].success /\ results[1].error = "OSError"
    /\ results[NumVideos].success

\* C20: once main() has ended, the report is written in full, nothing was
\* raised, and its Successful and Failed counts sum to the number of videos.
C20_ReportAlwaysWritten ==
    main_pc \in {"done", "raised"} =>
        /\ main_exc = "none"
        /\ report.state = "complete"
        /\ report.details = NumVideos
        /\ report.successful + report.failed = report.total
        /\ report.total = NumVideos

\* C21: when no file write fails, once process_video has ended (by
\* returning or by raising) the JSON record and the text file are either
\* both written in full or both missing.
C21_PersistenceAllOrNothing ==
    (Finished /\ io_fault = "none") =>
        \/ FileComplete(JsonPath) /\ FileComplete(TextPath)
        \/ JsonPath \notin DOMAIN files /\ TextPath \notin DOMAIN files

\* C22: once extract_subtitles has returned, on any path (parsed subtitles,
\* no default subtitle stream, exception), neither the temporary subtitle
\* file nor any per-stream file derived from it exists.
C22_TempFilesDeleted ==
    PastSubtitles => tmp_files = {}

\* C23: with a segment length L > 0, segment_long_audio on an audio of d ms
\* returns the least number n of segments with n * L >= d; segment i (from
\* 0) spans [i*L, min((i+1)*L, d)), so the segments are non-empty, at most
\* L long, contiguous from 0 to d, numbered in increasing order, and every
\* millisecond of [0, d) lies in exactly one of them.  With L = 0 it
\* returns None.  Nothing is raised in either case.
C23_SegmentsPartitionAudio ==
    seg_pc = "done" =>
        /\ seg_exc = "none"
        /\ IF seg_length = 0
           THEN seg_result = PyNone
           ELSE /\ seg_result.type = "list"
                /\ LET segs == seg_result.val
                       n == Len(segs)
                       d == seg_duration
                       L == seg_length
                   IN  /\ n * L >= d
                       /\ n > 0 => (n - 1) * L < d
                       /\ \A k \in 1..n :
                             /\ segs[k].number = k - 1
                             /\ segs[k].start = (k - 1) * L
                             /\ segs[k].end = Min(k * L, d)
                             /\ segs[k].start < segs[k].end
                             /\ segs[k].end - segs[k].start <= L
                       /\ n > 0 => segs[1].start = 0 /\ segs[n].end = d
                       /\ \A k \in 1..(n - 1) : segs[k + 1].start = segs[k].end
                       /\ \A t \in 0..(d - 1) :
                             Cardinality({ k \in 1..n :
                                 segs[k].start <= t /\ t < segs[k].end }) = 1

\* A call that returned three segments or more, the last one shorter than
\* the segment length.
C23_Witness ==
    /\ seg_pc = "done"
    /\ seg_length > 1
    /\ seg_result.type = "list"
    /\ Len(seg_result.val) >= 3
    /\ LET last == seg_result.val[Len(seg_result.val)]
       IN  last.end = seg_duration /\ last.end - last.start < seg_length

====
